---- MODULE Spec2Model ----
(***************************************************************************)
(* Strava ingestion core of the blog API: StravaService (token handling,   *)
(* paginated activity sync, best-effort enrichment, disconnect) on top of  *)
(* StravaStore (PostgreSQL tables strava_tokens, strava_activities and     *)
(* strava_best_efforts).  One request handler runs at a time; its position *)
(* is pc and its C# locals are the record run.                             *)
(***************************************************************************)
EXTENDS Integers, Sequences, FiniteSets, TLC

VARIABLES
    athletes,     \* the provider's athletes who can authorize the application
    remote,       \* an athlete's history at the provider, in list-endpoint order
                  \* (where several athletes can authorize, none has recorded anything)
    tokens,       \* table strava_tokens: athlete_id -> row
    activities,   \* table strava_activities: id -> row
    bestEfforts,  \* table strava_best_efforts: set of rows (primary key id)
    now,          \* DateTime.UtcNow, in minutes
    issued,       \* number of access tokens the provider has issued
    pc,           \* position of the request handler
    run,          \* locals of the running SyncActivities call
    obs,          \* what the running SyncActivities call has done so far
    last,         \* the operation that has just completed and its result
    authorization, \* _httpClient.DefaultRequestHeaders.Authorization of the service's client
    concurrent,   \* a second request handler running at the same time as the first
    sessionTokens, \* TokenStore._sessionTokens: session token -> expiry
    request       \* the HTTP request the controller has received last

vars == <<athletes, remote, tokens, activities, bestEfforts, now, issued, pc, run, obs, last,
          authorization, concurrent, sessionTokens, request>>

----------------------------------------------------------------------------
(* Bounds of the model *)

MaxDate == 2       \* start dates a remote activity can carry: 1..MaxDate
MaxNow == 1        \* the clock stops advancing here
MaxIssued == 2     \* token grants the provider answers successfully
\* lifetime of a granted access token (expires_at of the token response), minutes
TokenLife == 6
MaxStatRows == 2    \* rows of the activity tables GetStats is applied to
MaxEffortRows == 3 \* rows of the best-effort tables GetPersonalBests is applied to

\* identifiers of the activities the remote history can hold
RemoteIds == {1, 2, 3}

(* Program constants *)

\* const int perPage = 100, scaled down so that multi-page histories fit the bounds
PerPage == 2
\* token.ExpiresAt <= DateTime.UtcNow.AddMinutes(5)
RefreshWindow == 5

\* tokenResponse.athlete.id
Athletes == {1, 2}
RemoteTypes == {"Run", "Ride"}

\* T? : null is <<>>, a value v is <<v>>
Null == <<>>
Some(v) == <<v>>

Min(a, b) == IF a < b THEN a ELSE b

SetMax(S) == CHOOSE m \in S : \A x \in S : x <= m

Range(s) == {s[i] : i \in 1..Len(s)}

----------------------------------------------------------------------------
(* The provider *)

\* one element of the activity-list payload (StravaActivityResponse)
RemoteActivity == [id : RemoteIds, type : RemoteTypes, start_date : 1..MaxDate]

\* histories the provider can hold: identifiers are unique; the order of the
\* list endpoint is the provider's, not tied to the start dates
RemoteHistories ==
    UNION {{s \in [1..n -> RemoteActivity] : \A i \in 1..n : s[i].id = i} :
              n \in 0..Cardinality(RemoteIds)}

\* GET /athlete/activities?page=&per_page=&after= : the items that took place
\* after the epoch second, cut into pages of per_page; start_date is the
\* item's start as an epoch second
ListPage(page, perPage, after) ==
    LET match == SelectSeq(remote, LAMBDA a : after = Null \/ a.start_date > after[1])
    IN  SubSeq(match, (page - 1) * perPage + 1, Min(page * perPage, Len(match)))

\* public long activity_id of StravaBestEffortResponse when the payload names
\* no stored activity (the value of a property the JSON does not carry)
UnknownActivity == 0

\* the activity a best effort of the detail payload of activity a can name
PayloadActivityIds(a) == {a, UnknownActivity}

\* best_efforts of GET /activities/{id}: the athlete's fastest kilometre and
\* five kilometres within activity a, with their moving times in seconds (two
\* activities tie on the kilometre; the second is the fastest over five); ref
\* is the activity the payload names for them
EffortsOf(a, ref) ==
    << [id |-> 2 * a - 1, activity_id |-> ref, athlete_id |-> 1, name |-> "1K",
        distance |-> 1000, moving_time |-> <<300, 300, 290>>[a],
        start_date |-> remote[a].start_date],
       [id |-> 2 * a, activity_id |-> ref, athlete_id |-> 1, name |-> "5K",
        distance |-> 5000, moving_time |-> <<1200, 1100, 1300>>[a],
        start_date |-> remote[a].start_date] >>

----------------------------------------------------------------------------
(* StravaStore *)

GetEarliestActivityDate ==
    IF DOMAIN activities = {} THEN Null
    ELSE Some(CHOOSE m \in {activities[i].start_date : i \in DOMAIN activities} :
                 \A i \in DOMAIN activities : m <= activities[i].start_date)

\* SELECT MAX(start_date) FROM strava_activities
GetLatestActivityDate ==
    IF DOMAIN activities = {} THEN Null
    ELSE Some(SetMax({activities[i].start_date : i \in DOMAIN activities}))

UpsertActivityReplacingAll(tbl, a) == [i \in {a.id} |-> a]

UpsertActivityOverwriting(tbl, a) ==
    [i \in DOMAIN tbl \cup {a.id} |-> IF i = a.id THEN a ELSE tbl[i]]

\* the columns the DO UPDATE SET list of SaveActivities leaves out
KeptOnConflict == {"id", "athlete_id", "start_date", "start_date_local", "created_at"}

\* INSERT INTO strava_activities ... ON CONFLICT (id) DO UPDATE SET name = @name,
\* activity_type = @activity_type, distance_meters = ..., location_country = ...
UpsertActivity(tbl, a) ==
    IF a.id \in DOMAIN tbl
    THEN [tbl EXCEPT ![a.id] = [f \in DOMAIN @ |-> IF f \in KeptOnConflict THEN @[f] ELSE a[f]]]
    ELSE [i \in DOMAIN tbl \cup {a.id} |-> IF i = a.id THEN a ELSE tbl[i]]

GetAllActivityIds == DOMAIN activities

\* SELECT a.id FROM strava_activities a LEFT JOIN strava_best_efforts be
\*   ON a.id = be.activity_id WHERE be.id IS NULL
GetActivityIdsWithoutBestEfforts ==
    {i \in DOMAIN activities : \A e \in bestEfforts : e.activity_id # i}

InsertBestEffortReplacingBucket(tbl, e) == {x \in tbl : x.name # e.name} \cup {e}

InsertBestEffortOverwriting(tbl, e) == {x \in tbl : x.id # e.id} \cup {e}

\* INSERT INTO strava_best_efforts ... ON CONFLICT (id) DO NOTHING
InsertBestEffort(tbl, e) ==
    IF \E x \in tbl : x.id = e.id THEN tbl ELSE tbl \cup {e}

\* SELECT ... FROM strava_tokens LIMIT 1: null when the table is empty, else a
\* row of the server's choosing (no ORDER BY)
GetToken ==
    IF DOMAIN tokens = {} THEN {Null} ELSE {Some(tokens[a]) : a \in DOMAIN tokens}

\* INSERT INTO strava_tokens ... ON CONFLICT (athlete_id) DO UPDATE
SaveToken(tbl, t) ==
    [a \in DOMAIN tbl \cup {t.athlete_id} |-> IF a = t.athlete_id THEN t ELSE tbl[a]]

DeleteTokenOfOneAthlete(tbl) ==
    IF DOMAIN tbl = {} THEN tbl
    ELSE [a \in DOMAIN tbl \ {CHOOSE x \in DOMAIN tbl : TRUE} |-> tbl[a]]

\* DELETE FROM strava_tokens
DeleteToken(tbl) == <<>>

\* DELETE FROM strava_activities
DeleteAllActivities(tbl) == <<>>

DeleteNoBestEfforts(tbl) == tbl

\* DELETE FROM strava_best_efforts
DeleteAllBestEfforts(tbl) == {}

NoForeignKey(ref, tbl) == TRUE

\* activity_id BIGINT NOT NULL REFERENCES strava_activities(id): checked when a
\* row is inserted
ForeignKeyHolds(ref, tbl) == ref \in DOMAIN tbl

\* activity_id ... REFERENCES strava_activities(id) ON DELETE CASCADE
Cascade(efforts, tbl) == {e \in efforts : e.activity_id \in DOMAIN tbl}

GetAllActivitiesAscending ==
    {s \in [1..Cardinality(DOMAIN activities) -> {activities[i] : i \in DOMAIN activities}] :
        /\ \A i, j \in DOMAIN s : i < j => s[i].id # s[j].id
        /\ \A i, j \in DOMAIN s : i < j => s[i].start_date <= s[j].start_date}

\* SELECT ... FROM strava_activities ORDER BY start_date DESC: the lists the
\* query can return (rows of equal start date come in any order)
GetAllActivities ==
    {s \in [1..Cardinality(DOMAIN activities) -> {activities[i] : i \in DOMAIN activities}] :
        /\ \A i, j \in DOMAIN s : i < j => s[i].id # s[j].id
        /\ \A i, j \in DOMAIN s : i < j => s[i].start_date >= s[j].start_date}

FirstOfGroupSlowest(rows) == {e \in rows : \A x \in rows : e.moving_time >= x.moving_time}

\* ORDER BY name, moving_time_seconds ASC: the rows that can come first
\* among those of one name
FirstOfGroup(rows) == {e \in rows : \A x \in rows : e.moving_time <= x.moving_time}

EveryRow(tbl) == {tbl}

\* SELECT DISTINCT ON (name) ...: the first row of each name, as a set of rows;
\* the results the query can give
DistinctOnName(tbl) ==
    LET names == {e.name : e \in tbl}
        first == [n \in names |-> FirstOfGroup({e \in tbl : e.name = n})]
        picks == {g \in [names -> UNION {first[n] : n \in names}] :
                     \A n \in names : g[n] \in first[n]}
    IN  {{g[n] : n \in names} : g \in picks}

\* pbs.Add(new PersonalBest { Name = ..., BestTimeSeconds = ..., ... })
PersonalBest(e) ==
    [name |-> e.name, distance_meters |-> e.distance, best_time_seconds |-> e.moving_time,
     achieved_date |-> e.start_date, activity_id |-> e.activity_id]

\* StravaStore.GetPersonalBests: the lists it can return, each as a set of entries
GetPersonalBests ==
    {{PersonalBest(e) : e \in rows} : rows \in DistinctOnName(bestEfforts)}

----------------------------------------------------------------------------
(* StravaService *)

RECURSIVE SumSeq(_)
\* Enumerable.Sum
SumSeq(s) == IF s = <<>> THEN 0 ELSE Head(s) + SumSeq(Tail(s))

\* Math.Round(decimal, decimals) of the quotient n / d (n >= 0, d > 0), in
\* units of the last kept decimal: to nearest, a midpoint to the even neighbour
RoundHalfEven(n, d) ==
    LET q == n \div d
        r == n % d
    IN  IF 2 * r < d THEN q
        ELSE IF 2 * r > d THEN q + 1
        ELSE IF q % 2 = 0 THEN q ELSE q + 1

NewStravaStatsMinDate ==
    [total_runs |-> 0, total_distance_km |-> 0, total_time_minutes |-> 0,
     total_elevation_gain |-> 0, average_pace |-> 0, last_run_date |-> Some(0)]

\* new StravaStats(): every number 0, LastRunDate null
NewStravaStats ==
    [total_runs |-> 0, total_distance_km |-> 0, total_time_minutes |-> 0,
     total_elevation_gain |-> 0, average_pace |-> 0, last_run_date |-> Null]

TotalRunsWithDistance(list) == Cardinality({i \in 1..Len(list) : list[i].distance > 0})

\* TotalRuns = activities.Count
TotalRuns(list) == Len(list)

DistanceKmFloor(meters) == meters \div 100

\* Math.Round(totalDistance / 1000m, 1), in tenths of a kilometre
DistanceKm(meters) == RoundHalfEven(meters, 100)

PaceOfReportedTotals(seconds, meters) ==
    IF DistanceKm(meters) > 0
    THEN RoundHalfEven((seconds \div 60) * 1000, DistanceKm(meters))
    ELSE 0

\* totalDistance > 0 ? Math.Round((totalTime / 60m) / (totalDistance / 1000m), 2) : 0
\* in hundredths of a minute per kilometre
Pace(seconds, meters) ==
    IF meters > 0 THEN RoundHalfEven(seconds * 5000, 3 * meters) ELSE 0

\* StravaService.GetStats on the list GetAllActivities returned; distances in
\* metres, elevation gains in half metres
GetStats(list) ==
    IF Len(list) = 0 THEN NewStravaStats
    ELSE LET totalDistance == SumSeq([i \in 1..Len(list) |-> list[i].distance])
             totalTime == SumSeq([i \in 1..Len(list) |-> list[i].moving_time])
             gain == SumSeq([i \in 1..Len(list) |->
                        IF list[i].elevation = Null THEN 0 ELSE list[i].elevation[1]])
         IN  [total_runs |-> TotalRuns(list),
              total_distance_km |-> DistanceKm(totalDistance),
              total_time_minutes |-> totalTime \div 60,
              total_elevation_gain |-> RoundHalfEven(gain, 2),
              average_pace |-> Pace(totalTime, totalDistance),
              last_run_date |-> Some(list[1].start_date_local)]

\* var token = await _store.GetToken(); return token != null;
IsConnected == Null \notin GetToken

IsRunTypeLax(type) == type # ""

\* sa.type != "Run" && sa.type != "VirtualRun" && sa.type != "TrailRun" -> continue
IsRunType(type) == type \in {"Run", "VirtualRun", "TrailRun"}

\* DateTime.Parse(sa.start_date).ToUniversalTime(): a DateTime, in ticks of
\* 100 ns, of a UTC date string
ParseUtc(second) == second * 10000000

\* new DateTimeOffset(after.Value).ToUnixTimeSeconds(), on a host whose zone is UTC
ToUnixTimeSeconds(ticks) == ticks \div 10000000

\* if (after.HasValue) url += $"&after={epoch}"
AfterParam(after) == IF after = Null THEN Null ELSE Some(ToUnixTimeSeconds(after[1]))

\* new StravaActivity { Id = sa.id, ActivityType = sa.type, StartDate = ... }
Normalize(sa) == [id |-> sa.id, type |-> sa.type, start_date |-> ParseUtc(sa.start_date)]

\* the foreach of FetchActivitiesFromStrava: keep and convert the running items
KeptOf(items) ==
    LET running == SelectSeq(items, LAMBDA sa : IsRunType(sa.type))
    IN  [k \in 1..Len(running) |-> Normalize(running[k])]

NeedsRefreshStrict(t) == t.expires_at < now + RefreshWindow

\* detailed.best_efforts.Select(be => new StravaBestEffort { ... })
BestEffortsOf(efforts) ==
    [k \in 1..Len(efforts) |-> [efforts[k] EXCEPT !.start_date = ParseUtc(@)]]

\* token.ExpiresAt <= DateTime.UtcNow.AddMinutes(5)
NeedsRefresh(t) == t.expires_at <= now + RefreshWindow

\* StravaRefreshResponse / StravaTokenResponse turned into a StravaToken
GrantedToken(athlete) ==
    [athlete_id |-> athlete, access_token |-> issued + 1, refresh_token |-> issued + 1,
     expires_at |-> now + TokenLife]

OnNoTokenProceed == "proceed"

\* if (token == null) throw new InvalidOperationException("Not connected to Strava");
OnNoToken == "throw"

OnGrantFailureSave == "save"

\* response.EnsureSuccessStatusCode(); ... if (tokenResponse == null) throw ...
\* come before SaveToken in ExchangeCodeForToken and in RefreshToken
OnGrantFailure == "throw"

OnFetchFailureSwallow == "break"

\* response.EnsureSuccessStatusCode() and JsonSerializer.Deserialize are not
\* guarded in FetchActivitiesFromStrava: the exception leaves SyncActivities
OnFetchFailure == "throw"

OnDetailFailureThrow == "throw"

\* try { ... } catch { continue; } around each detail call of SyncBestEfforts
OnDetailFailure == "continue"

SaveDoneFirstOnly(idx, batch) == idx > 1

\* foreach (var activity in activities) of SaveActivities has run out
SaveDone(idx, batch) == idx > Len(batch)

AfterFetchSkipEmpty(fetched) == IF fetched # <<>> THEN "save" ELSE "detail"

\* if (activities.Any()) SaveActivities(activities); then SyncBestEfforts
AfterFetch(fetched) == IF fetched # <<>> THEN "save" ELSE "enrich"

\* return activities.Count();
SyncReturn(fetched) == Len(fetched)

StopAfterFullPage(count, perPage) == count <= perPage

\* if (stravaActivities.Count < perPage) break;
LastPage(count, perPage) == count < perPage

----------------------------------------------------------------------------
(* State of a handler that is not running, and of one that has not observed *)

\* new AuthenticationHeaderValue("Bearer", accessToken)
Bearer(accessToken) == Some(accessToken)

\* no second handler is running
Alone == [op |-> "none", pc |-> "idle", token |-> Null]

\* the rest of the application as the service finds it when nothing else has
\* been modelled: no session, no request
Apart ==
    /\ concurrent = Alone
    /\ sessionTokens = <<>>
    /\ request = Null

RunIdle ==
    [token |-> Null, after |-> Null, page |-> 1, fetched |-> <<>>, idx |-> 1,
     targets |-> {}, cur |-> Null, efforts |-> <<>>, eidx |-> 1]

\* afterOk: the operation completed just before this run was a successful sync;
\* newRows: rows this run inserted that were not stored before; startStore: the
\* activity table when the run, or the Disconnect, began; afterSent: the after
\* value of the run's list requests; kept: items retained so far; active: a
\* run has been observed;
\* failedPage: the page whose request failed (0: none); passTargets/outcome:
\* the targets of the enrichment pass under way and what became of each;
\* enrichFailed: an iteration of the pass has thrown or met a failure status;
\* startToken: what GetToken returned to the run; tokenCalls: requests the run
\* sent to the token endpoint; listed: the run sent a list request
ObsIdle ==
    [active |-> FALSE, afterOk |-> FALSE, newRows |-> 0, startStore |-> <<>>, afterSent |-> Null,
     kept |-> <<>>, failedPage |-> 0, enrichStarted |-> FALSE,
     passTargets |-> {}, outcome |-> <<>>, enrichFailed |-> FALSE,
     startToken |-> Null, tokenCalls |-> 0, listed |-> FALSE]

Result(op, kind, stage, count) == [op |-> op, kind |-> kind, stage |-> stage, count |-> count]

NoResult == Result("none", "ok", "", Null)

SyncPcs == {"refresh", "cursor", "fetch", "save", "enrich", "detail", "efforts", "delay"}

Init ==
    /\ remote \in RemoteHistories
    /\ athletes \in {{1}, Athletes}
    /\ authorization = Null
    /\ Apart
    /\ Cardinality(athletes) > 1 => remote = <<>>
    /\ tokens = <<>>
    /\ activities = <<>>
    /\ bestEfforts = {}
    /\ now = 0
    /\ issued = 0
    /\ pc = "idle"
    /\ run = RunIdle
    /\ obs = ObsIdle
    /\ last = NoResult

----------------------------------------------------------------------------
(* SyncActivities *)

Finish(result) ==
    /\ pc' = "idle"
    /\ run' = RunIdle
    /\ last' = result

\* GetValidToken: GetToken (SELECT ... LIMIT 1), null -> "Not connected to Strava"
SyncNotConnected ==
    /\ pc = "idle"
    /\ Null \in GetToken
    /\ obs' = [ObsIdle EXCEPT !.active = TRUE, !.startStore = activities]
    /\ IF OnNoToken = "throw"
       THEN Finish(Result("sync", "error", "token", Null))
       ELSE pc' = "cursor" /\ run' = RunIdle /\ last' = NoResult
    /\ UNCHANGED <<authorization, concurrent, sessionTokens, request, athletes, remote, tokens, activities, bestEfforts, now, issued>>

\* GetValidToken with a stored token: refresh first when it is about to expire
SyncBegin ==
    /\ pc = "idle"
    /\ \E token \in GetToken \ {Null} :
          /\ run' = [RunIdle EXCEPT !.token = token]
          /\ pc' = IF NeedsRefresh(token[1]) THEN "refresh" ELSE "cursor"
          /\ obs' = [ObsIdle EXCEPT !.active = TRUE,
                                    !.afterOk = (last.op = "sync" /\ last.kind = "ok"),
                                    !.startStore = activities,
                                    !.startToken = token]
    /\ last' = NoResult
    /\ UNCHANGED <<authorization, concurrent, sessionTokens, request, athletes, remote, tokens, activities, bestEfforts, now, issued>>

\* RefreshToken: the grant succeeds, the refreshed token is saved
RefreshOk ==
    /\ pc = "refresh"
    /\ issued < MaxIssued
    /\ LET t == GrantedToken(run.token[1].athlete_id)
       IN  /\ tokens' = SaveToken(tokens, t)
           /\ run' = [run EXCEPT !.token = Some(t)]
    /\ issued' = issued + 1
    /\ pc' = "cursor"
    /\ obs' = [obs EXCEPT !.tokenCalls = @ + 1]
    /\ UNCHANGED <<authorization, concurrent, sessionTokens, request, athletes, remote, activities, bestEfforts, now, last>>

\* RefreshToken: EnsureSuccessStatusCode or the parse throws, nothing is saved
RefreshFail ==
    /\ pc = "refresh"
    /\ \E why \in {"status", "network", "parse"} :
          obs' = [obs EXCEPT !.tokenCalls = @ + 1]
    /\ tokens' = IF OnGrantFailure = "throw" THEN tokens
                 ELSE SaveToken(tokens, GrantedToken(run.token[1].athlete_id))
    /\ Finish(Result("sync", "error", "refresh", Null))
    /\ UNCHANGED <<authorization, concurrent, sessionTokens, request, athletes, remote, activities, bestEfforts, now, issued>>

\* var latestDate = await _store.GetLatestActivityDate();
ReadCursor ==
    /\ pc = "cursor"
    /\ run' = [run EXCEPT !.after = GetLatestActivityDate, !.page = 1,
                          !.fetched = <<>>]
    /\ authorization' = Bearer(run.token[1].access_token)
    /\ pc' = "fetch"
    /\ UNCHANGED <<concurrent, sessionTokens, request, athletes, remote, tokens, activities, bestEfforts, now, issued, obs, last>>

\* one iteration of the while (true) of FetchActivitiesFromStrava that gets its page
FetchPage ==
    /\ pc = "fetch"
    /\ LET items == ListPage(run.page, PerPage, AfterParam(run.after))
           kept == IF Len(items) = 0 THEN run.fetched ELSE run.fetched \o KeptOf(items)
           stop == Len(items) = 0 \/ LastPage(Len(items), PerPage)
       IN  /\ run' = [run EXCEPT !.fetched = kept,
                                 !.page = IF stop THEN @ ELSE @ + 1]
           /\ obs' = [obs EXCEPT !.afterSent = AfterParam(run.after), !.kept = kept,
                                 !.listed = TRUE]
           /\ pc' = IF stop THEN AfterFetch(kept) ELSE "fetch"
    /\ UNCHANGED <<authorization, concurrent, sessionTokens, request, athletes, remote, tokens, activities, bestEfforts, now, issued, last>>

\* one iteration whose request fails: non-success status, network error, or a
\* payload that Deserialize / DateTime.Parse rejects
FetchPageFail ==
    /\ pc = "fetch"
    /\ \E why \in {"status", "network", "parse"} :
          obs' = [obs EXCEPT !.afterSent = AfterParam(run.after), !.failedPage = run.page,
                                !.listed = TRUE]
    /\ IF OnFetchFailure = "throw"
       THEN Finish(Result("sync", "error", "fetch", Null))
       ELSE /\ pc' = AfterFetch(run.fetched)
            /\ UNCHANGED <<run, last>>
    /\ UNCHANGED <<authorization, concurrent, sessionTokens, request, athletes, remote, tokens, activities, bestEfforts, now, issued>>

\* one iteration of the foreach of SaveActivities: its own statement, committed
\* on its own (no transaction spans the batch)
SaveRow ==
    /\ pc = "save"
    /\ LET a == run.fetched[run.idx]
       IN  /\ activities' = UpsertActivity(activities, a)
           /\ obs' = [obs EXCEPT !.newRows = IF a.id \in DOMAIN activities THEN @ ELSE @ + 1]
    /\ run' = [run EXCEPT !.idx = @ + 1]
    /\ pc' = IF SaveDone(run.idx + 1, run.fetched) THEN "enrich" ELSE "save"
    /\ UNCHANGED <<authorization, concurrent, sessionTokens, request, athletes, remote, tokens, bestEfforts, now, issued, last>>

\* an INSERT of SaveActivities throws: the rows before it stay
SaveRowFail ==
    /\ pc = "save"
    /\ Finish(Result("sync", "error", "save", Null))
    /\ UNCHANGED <<authorization, concurrent, sessionTokens, request, athletes, remote, tokens, activities, bestEfforts, now, issued, obs>>

----------------------------------------------------------------------------
(* SyncBestEfforts *)

\* var activityIds = await _store.GetActivityIdsWithoutBestEfforts();
EnrichBegin ==
    /\ pc = "enrich"
    /\ LET ids == GetActivityIdsWithoutBestEfforts
       IN  /\ run' = [run EXCEPT !.targets = ids]
           /\ obs' = [obs EXCEPT !.enrichStarted = TRUE, !.passTargets = ids,
                                 !.outcome = [i \in ids |-> "pending"]]
    /\ authorization' = Bearer(run.token[1].access_token)
    /\ pc' = "detail"
    /\ UNCHANGED <<concurrent, sessionTokens, request, athletes, remote, tokens, activities, bestEfforts, now, issued, last>>

\* the detail call of one iteration does not yield a best-effort list: the
\* request throws, the status is not a success, Deserialize throws, or the
\* list is null or empty
DetailSkip ==
    /\ pc = "detail"
    /\ \E a \in run.targets, why \in {"network", "status", "parse", "empty"} :
          /\ obs' = [obs EXCEPT !.outcome[a] = IF why = "empty" THEN "empty" ELSE "failed",
                                !.enrichFailed = @ \/ why # "empty"]
          /\ IF why = "empty" \/ why = "status" \/ OnDetailFailure = "continue"
             THEN /\ run' = [run EXCEPT !.targets = @ \ {a}]
                  /\ UNCHANGED <<pc, last>>
             ELSE Finish(Result("sync", "error", "enrich", Null))
    /\ UNCHANGED <<authorization, concurrent, sessionTokens, request, athletes, remote, tokens, activities, bestEfforts, now, issued>>

\* the detail call yields best efforts: SaveBestEfforts starts on them
DetailOk ==
    /\ pc = "detail"
    /\ \E a \in run.targets : \E ref \in PayloadActivityIds(a) :
          /\ run' = [run EXCEPT !.cur = Some(a), !.efforts = BestEffortsOf(EffortsOf(a, ref)),
                                 !.eidx = 1]
          /\ obs' = [obs EXCEPT !.outcome[a] = "fetched"]
    /\ pc' = "efforts"
    /\ UNCHANGED <<authorization, concurrent, sessionTokens, request, athletes, remote, tokens, activities, bestEfforts, now, issued, last>>

\* one iteration of the foreach of SaveBestEfforts
SaveEffort ==
    /\ pc = "efforts"
    /\ LET e == run.efforts[run.eidx]
           done == run.eidx + 1 > Len(run.efforts)
       IN  /\ \/ \E x \in bestEfforts : x.id = e.id
              \/ ForeignKeyHolds(e.activity_id, activities)
           /\ bestEfforts' = InsertBestEffort(bestEfforts, e)
           /\ run' = [run EXCEPT !.eidx = @ + 1]
           /\ obs' = IF done THEN [obs EXCEPT !.outcome[run.cur[1]] = "saved"] ELSE obs
           /\ pc' = IF done THEN "delay" ELSE "efforts"
    /\ UNCHANGED <<authorization, concurrent, sessionTokens, request, athletes, remote, tokens, activities, now, issued, last>>

\* an iteration of SaveBestEfforts throws (the deferred Select projection of
\* this element, the INSERT, or its foreign key): caught by SyncBestEfforts
SaveEffortFail ==
    /\ pc = "efforts"
    /\ obs' = [obs EXCEPT !.outcome[run.cur[1]] = "savefail", !.enrichFailed = TRUE]
    /\ IF OnDetailFailure = "continue"
       THEN /\ run' = [run EXCEPT !.targets = @ \ {run.cur[1]}, !.cur = Null,
                                  !.efforts = <<>>, !.eidx = 1]
            /\ pc' = "detail"
            /\ UNCHANGED last
       ELSE Finish(Result("sync", "error", "enrich", Null))
    /\ UNCHANGED <<authorization, concurrent, sessionTokens, request, athletes, remote, tokens, activities, bestEfforts, now, issued>>

\* await Task.Delay(100); then the next identifier
Delay ==
    /\ pc = "delay"
    /\ run' = [run EXCEPT !.targets = @ \ {run.cur[1]}, !.cur = Null,
                          !.efforts = <<>>, !.eidx = 1]
    /\ pc' = "detail"
    /\ UNCHANGED <<authorization, concurrent, sessionTokens, request, athletes, remote, tokens, activities, bestEfforts, now, issued, obs, last>>

\* the foreach of SyncBestEfforts has run out: return activities.Count();
SyncReturns ==
    /\ pc = "detail"
    /\ run.targets = {}
    /\ Finish(Result("sync", "ok", "", Some(SyncReturn(run.fetched))))
    /\ obs' = [obs EXCEPT !.passTargets = {}, !.outcome = <<>>]
    /\ UNCHANGED <<authorization, concurrent, sessionTokens, request, athletes, remote, tokens, activities, bestEfforts, now, issued>>

\* the process dies while SyncActivities runs: the tables keep what was committed
Crash ==
    /\ pc \in SyncPcs
    /\ Finish(Result("sync", "crash", "", Null))
    /\ obs' = ObsIdle
    /\ UNCHANGED <<authorization, concurrent, sessionTokens, request, athletes, remote, tokens, activities, bestEfforts, now, issued>>

----------------------------------------------------------------------------
(* ExchangeCodeForToken, Disconnect, the clock *)

\* the authorization-code grant succeeds and the token is saved
ExchangeCodeOk ==
    /\ pc = "idle"
    /\ issued < MaxIssued
    /\ \E a \in athletes : tokens' = SaveToken(tokens, GrantedToken(a))
    /\ issued' = issued + 1
    /\ last' = Result("exchange", "ok", "", Null)
    /\ obs' = ObsIdle
    /\ UNCHANGED <<authorization, concurrent, sessionTokens, request, athletes, remote, activities, bestEfforts, now, pc, run>>

\* EnsureSuccessStatusCode or the parse throws before SaveToken
ExchangeCodeFail ==
    /\ pc = "idle"
    /\ \E a \in athletes, why \in {"status", "network", "parse"} :
          tokens' = IF OnGrantFailure = "throw" THEN tokens
                    ELSE SaveToken(tokens, GrantedToken(a))
    /\ last' = Result("exchange", "error", "", Null)
    /\ obs' = ObsIdle
    /\ UNCHANGED <<authorization, concurrent, sessionTokens, request, athletes, remote, activities, bestEfforts, now, issued, pc, run>>

\* await _store.DeleteAllBestEfforts();
DisconnectBestEfforts ==
    /\ pc = "idle"
    /\ bestEfforts' = DeleteAllBestEfforts(bestEfforts)
    /\ pc' = "disconnect_token"
    /\ obs' = [ObsIdle EXCEPT !.startStore = activities]
    /\ last' = NoResult
    /\ UNCHANGED <<authorization, concurrent, sessionTokens, request, athletes, remote, tokens, activities, now, issued, run>>

\* await _store.DeleteToken();
DisconnectToken ==
    /\ pc = "disconnect_token"
    /\ tokens' = DeleteToken(tokens)
    /\ pc' = "disconnect_activities"
    /\ UNCHANGED <<authorization, concurrent, sessionTokens, request, athletes, remote, activities, bestEfforts, now, issued, run, obs, last>>

\* await _store.DeleteAllActivities(); best efforts go with their activity
\* (ON DELETE CASCADE)
DisconnectActivities ==
    /\ pc = "disconnect_activities"
    /\ activities' = DeleteAllActivities(activities)
    /\ bestEfforts' = Cascade(bestEfforts, activities')
    /\ pc' = "idle"
    /\ last' = Result("disconnect", "ok", "", Null)
    /\ UNCHANGED <<authorization, concurrent, sessionTokens, request, athletes, remote, tokens, now, issued, run, obs>>

\* a DELETE of Disconnect throws (the first, the second or the third): the
\* statements before it stay done, the controller answers with the error
DisconnectFail ==
    /\ pc \in {"idle", "disconnect_token", "disconnect_activities"}
    /\ pc' = "idle"
    /\ last' = Result("disconnect", "error", pc, Null)
    /\ obs' = ObsIdle
    /\ UNCHANGED <<authorization, concurrent, sessionTokens, request, athletes, remote, tokens, activities, bestEfforts, now, issued, run>>

\* time passes between two requests
Tick ==
    /\ pc = "idle"
    /\ now < MaxNow
    /\ now' = now + 1
    /\ obs' = ObsIdle
    /\ last' = NoResult
    /\ UNCHANGED <<authorization, concurrent, sessionTokens, request, athletes, remote, tokens, activities, bestEfforts, issued, pc, run>>

Next ==
    \/ SyncNotConnected
    \/ SyncBegin
    \/ RefreshOk
    \/ RefreshFail
    \/ ReadCursor
    \/ FetchPage
    \/ FetchPageFail
    \/ SaveRow
    \/ SaveRowFail
    \/ EnrichBegin
    \/ DetailSkip
    \/ DetailOk
    \/ SaveEffort
    \/ SaveEffortFail
    \/ Delay
    \/ SyncReturns
    \/ Crash
    \/ ExchangeCodeOk
    \/ ExchangeCodeFail
    \/ DisconnectBestEfforts
    \/ DisconnectToken
    \/ DisconnectActivities
    \/ DisconnectFail
    \/ Tick

Spec == Init /\ [][Next]_vars

----------------------------------------------------------------------------
(* GetPersonalBests applied to best-effort tables *)

\* moving times, in seconds, of the rows of those tables
EffortTimes == {1100, 1200, 1300}

\* a row of strava_best_efforts for the effort id, found in the activity id
EffortRow(id, name, time) ==
    [id |-> id, activity_id |-> id, athlete_id |-> 1, name |-> name,
     distance |-> IF name = "1K" THEN 1000 ELSE 5000, moving_time |-> time,
     start_date |-> ParseUtc(1)]

\* the tables: any rows of distinct identifiers
EffortTables ==
    {{EffortRow(i, f[i][1], f[i][2]) : i \in ids} :
        f \in [1..MaxEffortRows -> {"1K", "5K"} \X EffortTimes],
        ids \in SUBSET (1..MaxEffortRows)}

\* a connected application that has stored MaxEffortRows runs and some of
\* their best efforts
StoredInit ==
    /\ athletes = {1}
    /\ authorization = Null
    /\ Apart
    /\ remote = [i \in 1..MaxEffortRows |-> [id |-> i, type |-> "Run", start_date |-> 1]]
    /\ tokens = SaveToken(<<>>, [athlete_id |-> 1, access_token |-> 1, refresh_token |-> 1,
                                 expires_at |-> TokenLife])
    /\ activities = [i \in 1..MaxEffortRows |->
                        [id |-> i, type |-> "Run", start_date |-> ParseUtc(1)]]
    /\ bestEfforts \in EffortTables
    /\ now = 0
    /\ issued = 1
    /\ pc = "idle"
    /\ run = RunIdle
    /\ obs = ObsIdle
    /\ last = NoResult

\* GET pbs: StravaService.GetPersonalBests returns what the store's query gives
PersonalBests ==
    /\ pc = "idle"
    /\ \E r \in GetPersonalBests : last' = Result("pbs", "ok", "", Some(r))
    /\ UNCHANGED <<authorization, concurrent, sessionTokens, request, athletes, remote, tokens, activities, bestEfforts, now, issued, pc, run, obs>>

PersonalBestsNext == PersonalBests

PersonalBestsSpec == StoredInit /\ [][PersonalBestsNext]_vars

----------------------------------------------------------------------------
(* SaveBestEfforts applied to best-effort tables *)

\* one iteration of the foreach of SaveBestEfforts, for any effort
StoreBestEffort ==
    /\ pc = "idle"
    /\ \E i \in 1..MaxEffortRows, n \in {"1K", "5K"}, t \in EffortTimes :
          LET e == EffortRow(i, n, t)
          IN  /\ \/ \E x \in bestEfforts : x.id = e.id
                 \/ ForeignKeyHolds(e.activity_id, activities)
              /\ bestEfforts' = InsertBestEffort(bestEfforts, e)
              /\ last' = Result("saveBestEfforts", "ok", "", Some(e))
    /\ UNCHANGED <<authorization, concurrent, sessionTokens, request, athletes, remote, tokens, activities, now, issued, pc, run, obs>>

SaveBestEffortsNext ==
    \/ StoreBestEffort
    \/ DisconnectBestEfforts
    \/ DisconnectToken
    \/ DisconnectActivities

SaveBestEffortsSpec == StoredInit /\ [][SaveBestEffortsNext]_vars

----------------------------------------------------------------------------
(* GetStats applied to activity tables *)

\* distance_meters and moving_time_seconds of the rows of those tables
StatDistances == {0, 1050, 2080}
StatTimes == {119, 3600}
\* start_date as an epoch second, and what start_date_local is ahead of it
StatDates == {1, 2}
StatZones == {-2, 2}
\* total_elevation_gain: NULL or 12.5 m
StatGains == {Null, Some(25)}

ActivityRow(id, distance, time, date, zone, gain) ==
    [id |-> id, type |-> "Run", start_date |-> ParseUtc(date),
     start_date_local |-> ParseUtc(date + zone), distance |-> distance,
     moving_time |-> time, elevation |-> gain]

ActivityTables ==
    UNION {[ids -> {ActivityRow(0, d, t, s, z, g) :
                       d \in StatDistances, t \in StatTimes, s \in StatDates,
                       z \in StatZones, g \in StatGains}] :
              ids \in SUBSET (1..MaxStatRows)}

\* an application that has stored some runs, or none
StatsInit ==
    /\ athletes = {1}
    /\ authorization = Null
    /\ Apart
    /\ remote = <<>>
    /\ tokens \in {<<>>, SaveToken(<<>>, [athlete_id |-> 1, access_token |-> 1,
                                          refresh_token |-> 1, expires_at |-> TokenLife])}
    /\ \E tbl \in ActivityTables :
          activities = [i \in DOMAIN tbl |-> [tbl[i] EXCEPT !.id = i]]
    /\ bestEfforts = {}
    /\ now = 0
    /\ issued = 1
    /\ pc = "idle"
    /\ run = RunIdle
    /\ obs = ObsIdle
    /\ last = NoResult

\* GET stats: StravaService.GetStats
Stats ==
    /\ pc = "idle"
    /\ \E list \in GetAllActivities : last' = Result("stats", "ok", "", Some(GetStats(list)))
    /\ UNCHANGED <<authorization, concurrent, sessionTokens, request, athletes, remote, tokens, activities, bestEfforts, now, issued, pc, run, obs>>

StatsNext == Stats

StatsSpec == StatsInit /\ [][StatsNext]_vars

----------------------------------------------------------------------------
(* Successful syncs of a history that grows *)

\* the athlete records or uploads an activity between two requests; its start
\* date is the athlete's, not tied to the time of the upload
Upload ==
    /\ pc = "idle"
    /\ Len(remote) < Cardinality(RemoteIds)
    /\ \E a \in RemoteActivity :
          /\ a.id = Len(remote) + 1
          /\ remote' = Append(remote, a)
    /\ obs' = ObsIdle
    /\ last' = NoResult
    /\ UNCHANGED <<authorization, concurrent, sessionTokens, request, athletes, tokens, activities, bestEfforts, now, issued, pc, run>>

\* one athlete who has recorded nothing yet
UploadInit == Init /\ athletes = {1} /\ remote = <<>>

\* the requests succeed; the detail calls yield no best efforts
UploadNext ==
    \/ ExchangeCodeOk
    \/ SyncBegin
    \/ ReadCursor
    \/ FetchPage
    \/ SaveRow
    \/ EnrichBegin
    \/ DetailSkip
    \/ SyncReturns
    \/ Upload

UploadSpec == UploadInit /\ [][UploadNext]_vars

----------------------------------------------------------------------------
(* The loop of FetchActivitiesFromStrava over any history *)

\* one athlete and any history of the provider
PaginationInit == Init /\ athletes = {1}

\* syncs, the first from the epoch and the later ones from the stored cursor;
\* a list request is answered or fails; the detail calls yield no best efforts
PaginationNext ==
    \/ ExchangeCodeOk
    \/ SyncBegin
    \/ ReadCursor
    \/ FetchPage
    \/ FetchPageFail
    \/ SaveRow
    \/ EnrichBegin
    \/ DetailSkip
    \/ SyncReturns

\* a list request that has been sent is answered (HttpClient.GetAsync returns
\* or throws): the loop of FetchActivitiesFromStrava is not left waiting
PaginationSpec == PaginationInit /\ [][PaginationNext]_vars /\ WF_vars(FetchPage)

----------------------------------------------------------------------------
(* Two requests handled at the same time by the singleton service *)

\* a connected application: a token granted earlier, inside the refresh window
\* or not, and at most one remote activity
ConcurrentInit ==
    /\ athletes = {1}
    /\ authorization = Null
    /\ Apart
    /\ remote \in {h \in RemoteHistories : Len(h) <= 1}
    /\ \E e \in {RefreshWindow, TokenLife} :
          tokens = SaveToken(<<>>, [athlete_id |-> 1, access_token |-> 0,
                                    refresh_token |-> 0, expires_at |-> e])
    /\ activities = <<>>
    /\ bestEfforts = {}
    /\ now = 0
    /\ issued = 0
    /\ pc = "idle"
    /\ run = RunIdle
    /\ obs = ObsIdle
    /\ last = NoResult

\* the first request: one POST sync
SyncOnce == last = NoResult /\ SyncBegin

\* the steps of the first request once it has read the token
SyncSteps ==
    \/ RefreshOk
    \/ ReadCursor
    \/ FetchPage
    \/ SaveRow
    \/ EnrichBegin
    \/ DetailSkip
    \/ DetailOk
    \/ SaveEffort
    \/ SaveEffortFail
    \/ Delay
    \/ SyncReturns

\* a second POST sync arrives: GetValidToken reads the token
ConcurrentGetToken ==
    /\ concurrent = Alone
    /\ \E token \in GetToken \ {Null} :
          concurrent' = [op |-> "sync", token |-> token,
                         pc |-> IF NeedsRefresh(token[1]) THEN "refresh" ELSE "done"]
    /\ UNCHANGED <<authorization, sessionTokens, request, athletes, remote, tokens, activities, bestEfforts, now, issued, pc, run, obs, last>>

\* RefreshToken of the second request: the provider answers the grant
ConcurrentGrant ==
    /\ concurrent.op = "sync"
    /\ concurrent.pc = "refresh"
    /\ issued < MaxIssued
    /\ concurrent' = [concurrent EXCEPT !.pc = "save",
                          !.token = Some(GrantedToken(concurrent.token[1].athlete_id))]
    /\ issued' = issued + 1
    /\ UNCHANGED <<authorization, sessionTokens, request, athletes, remote, tokens, activities, bestEfforts, now, pc, run, obs, last>>

\* RefreshToken of the second request: await _store.SaveToken(token); the
\* rest of the second request does not write strava_tokens
ConcurrentSaveToken ==
    /\ concurrent.op = "sync"
    /\ concurrent.pc = "save"
    /\ tokens' = SaveToken(tokens, concurrent.token[1])
    /\ concurrent' = [concurrent EXCEPT !.pc = "done"]
    /\ UNCHANGED <<authorization, sessionTokens, request, athletes, remote, activities, bestEfforts, now, issued, pc, run, obs, last>>

ConcurrentSyncNext ==
    \/ SyncOnce
    \/ SyncSteps
    \/ ConcurrentGetToken
    \/ ConcurrentGrant
    \/ ConcurrentSaveToken

ConcurrentSyncSpec == ConcurrentInit /\ [][ConcurrentSyncNext]_vars

\* a DELETE disconnect arrives while the sync is under way:
\* await _store.DeleteAllBestEfforts();
ConcurrentDisconnectBestEfforts ==
    /\ concurrent = Alone
    /\ pc \in SyncPcs
    /\ bestEfforts' = DeleteAllBestEfforts(bestEfforts)
    /\ concurrent' = [Alone EXCEPT !.op = "disconnect", !.pc = "disconnect_token"]
    /\ UNCHANGED <<authorization, sessionTokens, request, athletes, remote, tokens, activities, now, issued, pc, run, obs, last>>

\* await _store.DeleteToken();
ConcurrentDisconnectToken ==
    /\ concurrent.op = "disconnect"
    /\ concurrent.pc = "disconnect_token"
    /\ tokens' = DeleteToken(tokens)
    /\ concurrent' = [concurrent EXCEPT !.pc = "disconnect_activities"]
    /\ UNCHANGED <<authorization, sessionTokens, request, athletes, remote, activities, bestEfforts, now, issued, pc, run, obs, last>>

\* await _store.DeleteAllActivities(); with the cascade
ConcurrentDisconnectActivities ==
    /\ concurrent.op = "disconnect"
    /\ concurrent.pc = "disconnect_activities"
    /\ activities' = DeleteAllActivities(activities)
    /\ bestEfforts' = Cascade(bestEfforts, activities')
    /\ concurrent' = [concurrent EXCEPT !.pc = "done"]
    /\ UNCHANGED <<authorization, sessionTokens, request, athletes, remote, tokens, now, issued, pc, run, obs, last>>

ConcurrentDisconnectNext ==
    \/ SyncOnce
    \/ SyncSteps
    \/ ConcurrentDisconnectBestEfforts
    \/ ConcurrentDisconnectToken
    \/ ConcurrentDisconnectActivities

ConcurrentDisconnectSpec == ConcurrentInit /\ [][ConcurrentDisconnectNext]_vars

----------------------------------------------------------------------------
(* StravaController behind the session TokenStore *)

\* DateTime.UtcNow.AddDays(30) of the login, in minutes
SessionLife == 43200

\* session tokens the login hands out (Guid strings)
SessionIds == {"s1", "s2"}

\* Authorization headers a request can carry: none, or a scheme and what
\* follows "scheme "
Headers == {Null} \cup ({"Bearer", "Basic"} \X (SessionIds \cup {""}))

AdminEndpoints == {"auth/url", "auth/callback", "sync", "disconnect"}

\* TokenStore.CleanupExpired
CleanupExpired(tbl) == [t \in {x \in DOMAIN tbl : ~(tbl[x] < now)} |-> tbl[t]]

\* TokenStore.AddToken
AddToken(tbl, token, expiry) ==
    CleanupExpired([t \in DOMAIN tbl \cup {token} |-> IF t = token THEN expiry ELSE tbl[t]])

\* TokenStore.RemoveToken
RemoveToken(tbl, token) == [t \in DOMAIN tbl \ {token} |-> tbl[t]]

IsValidTokenIgnoringExpiry(token) == token \in DOMAIN sessionTokens

\* TokenStore.IsValidToken
IsValidToken(token) == token \in DOMAIN sessionTokens /\ sessionTokens[token] > now

\* auth != null && auth.StartsWith("Bearer ") ? auth.Substring(7) : null
GetTokenFromHeader(auth) == IF auth # Null /\ auth[1] = "Bearer" THEN Some(auth[2]) ELSE Null

\* StravaController.IsAdmin
IsAdmin(auth) ==
    LET token == GetTokenFromHeader(auth)
    IN  token # Null /\ token[1] # "" /\ IsValidToken(token[1])

\* a connected or unconnected application whose athlete has recorded nothing,
\* with the sessions earlier logins have left, some of them run out
AdminInit ==
    /\ athletes = {1}
    /\ authorization = Null
    /\ concurrent = Alone
    /\ \E ids \in SUBSET SessionIds : sessionTokens \in [ids -> 0..(MaxNow + 1)]
    /\ request = Null
    /\ remote = <<>>
    /\ tokens = <<>>
    /\ activities = <<>>
    /\ bestEfforts = {}
    /\ now = 0
    /\ issued = 0
    /\ pc = "idle"
    /\ run = RunIdle
    /\ obs = ObsIdle
    /\ last = NoResult

\* POST auth/login with good credentials
Login ==
    /\ pc = "idle"
    /\ \E t \in SessionIds \ DOMAIN sessionTokens :
          sessionTokens' = AddToken(sessionTokens, t, now + SessionLife)
    /\ UNCHANGED <<authorization, concurrent, request, athletes, remote, tokens, activities, bestEfforts, now, issued, pc, run, obs, last>>

\* POST auth/logout
Logout ==
    /\ pc = "idle"
    /\ \E auth \in Headers :
          LET token == GetTokenFromHeader(auth)
          IN  /\ token # Null
              /\ token[1] # ""
              /\ sessionTokens' = RemoveToken(sessionTokens, token[1])
    /\ UNCHANGED <<authorization, concurrent, request, athletes, remote, tokens, activities, bestEfforts, now, issued, pc, run, obs, last>>

\* a request for an admin endpoint reaches the controller
Receive ==
    /\ pc = "idle"
    /\ \E ep \in AdminEndpoints, auth \in Headers :
          request' = Some([endpoint |-> ep, authorization |-> auth])
    /\ last' = NoResult
    /\ obs' = ObsIdle
    /\ UNCHANGED <<authorization, concurrent, sessionTokens, athletes, remote, tokens, activities, bestEfforts, now, issued, pc, run>>

\* if (!IsAdmin()) return Unauthorized();
Unauthorized ==
    /\ pc = "idle"
    /\ request # Null
    /\ ~IsAdmin(request[1].authorization)
    /\ last' = Result(request[1].endpoint, "unauthorized", "", Null)
    /\ obs' = ObsIdle
    /\ UNCHANGED <<authorization, concurrent, sessionTokens, request, athletes, remote, tokens, activities, bestEfforts, now, issued, pc, run>>

\* the request is for endpoint ep and passes the gate
Admitted(ep) ==
    /\ pc = "idle"
    /\ request # Null
    /\ request[1].endpoint = ep
    /\ IsAdmin(request[1].authorization)

\* GET auth/url -> _service.GetAuthorizationUrl
AdminAuthUrl ==
    /\ Admitted("auth/url")
    /\ last' = Result("authUrl", "ok", "", Null)
    /\ obs' = ObsIdle
    /\ UNCHANGED <<authorization, concurrent, sessionTokens, request, athletes, remote, tokens, activities, bestEfforts, now, issued, pc, run>>

\* POST auth/callback -> _service.ExchangeCodeForToken
AdminCallback == Admitted("auth/callback") /\ (ExchangeCodeOk \/ ExchangeCodeFail)

\* POST sync -> _service.SyncActivities
AdminSync == Admitted("sync") /\ (SyncBegin \/ SyncNotConnected)

\* DELETE disconnect -> _service.Disconnect
AdminDisconnect == Admitted("disconnect") /\ DisconnectBestEfforts

AdminNext ==
    \/ Login
    \/ Logout
    \/ Receive
    \/ Unauthorized
    \/ AdminAuthUrl
    \/ AdminCallback
    \/ AdminSync
    \/ AdminDisconnect
    \/ RefreshOk
    \/ ReadCursor
    \/ FetchPage
    \/ EnrichBegin
    \/ SyncReturns
    \/ DisconnectToken
    \/ DisconnectActivities
    \/ Tick

AdminSpec == AdminInit /\ [][AdminNext]_vars

----------------------------------------------------------------------------
(* SaveActivities applied to activity tables *)

\* the activities SaveActivities is given, and those of the tables it is
\* applied to: any type that is kept, distance, start and local start
SavedRows ==
    {[ActivityRow(0, d, 3600, s, z, Null) EXCEPT !.type = ty] :
        d \in {1050, 2080}, s \in StatDates, z \in StatZones, ty \in {"Run", "TrailRun"}}

\* an application that has stored some runs, or none
SavedInit ==
    /\ athletes = {1}
    /\ authorization = Null
    /\ Apart
    /\ remote = <<>>
    /\ tokens = <<>>
    /\ \E ids \in SUBSET (1..MaxStatRows) : \E tbl \in [ids -> SavedRows] :
          activities = [i \in ids |-> [tbl[i] EXCEPT !.id = i]]
    /\ bestEfforts = {}
    /\ now = 0
    /\ issued = 0
    /\ pc = "idle"
    /\ run = RunIdle
    /\ obs = ObsIdle
    /\ last = NoResult

\* one iteration of the foreach of SaveActivities, for any activity
StoreActivity ==
    /\ pc = "idle"
    /\ \E i \in 1..MaxStatRows, r \in SavedRows :
          LET a == [r EXCEPT !.id = i]
          IN  /\ activities' = UpsertActivity(activities, a)
              /\ last' = Result("saveActivities", "ok", "", Some(a))
    /\ UNCHANGED <<authorization, concurrent, sessionTokens, request, athletes, remote, tokens, bestEfforts, now, issued, pc, run, obs>>

SaveActivitiesNext == StoreActivity

SaveActivitiesSpec == SavedInit /\ [][SaveActivitiesNext]_vars

----------------------------------------------------------------------------
(* Vocabulary of the properties *)

\* a SyncActivities call has just returned or thrown
SyncEnded == obs.active /\ pc = "idle" /\ last.op = "sync"

SyncSucceeded == SyncEnded /\ last.kind = "ok"

StoredIds == DOMAIN activities

\* positions of the remote history that hold a running activity
RemoteRuns == {i \in 1..Len(remote) : remote[i].type \in {"Run", "VirtualRun", "TrailRun"}}

EffortRowsOf(a) == {e \in bestEfforts : e.activity_id = a}

KeptIds(kept) == {kept[i].id : i \in 1..Len(kept)}

----------------------------------------------------------------------------
(* C1: a sync that directly follows a successful sync, with the remote      *)
(* history unchanged, stores no activity row that was not stored before:   *)
(* the set of stored identifiers stays the one the first run left.         *)
SyncIdempotent ==
    obs.afterOk => (obs.newRows = 0 /\ StoredIds = DOMAIN obs.startStore)

SyncIdempotentWitness ==
    /\ SyncSucceeded
    /\ obs.afterOk
    /\ Cardinality(StoredIds) >= 2
    /\ Len(remote) > PerPage

(* C2: every list request of a run carries after = the greatest stored     *)
(* start date, and no item the run retains has a start date at or below a  *)
(* start date that was stored when the run began (nor a stored identifier).*)
IncrementalCursor ==
    obs.active =>
        /\ pc = "fetch" /\ StoredIds # {} =>
              /\ run.after # Null
              /\ \A i \in StoredIds : activities[i].start_date <= run.after[1]
              /\ \E i \in StoredIds : activities[i].start_date = run.after[1]
        /\ \A k \in 1..Len(obs.kept) : \A i \in DOMAIN obs.startStore :
              /\ obs.kept[k].start_date > obs.startStore[i].start_date
              /\ obs.kept[k].id # i

IncrementalCursorWitness ==
    /\ SyncSucceeded
    /\ obs.startStore # <<>>
    /\ obs.kept # <<>>
    /\ obs.afterSent # Null

(* C3: a successful run that began with an empty activity table sent no    *)
(* after filter and leaves in the table exactly the running activities of  *)
(* the remote history, from every page.                                    *)
FullHistoryOnFirstRun ==
    SyncSucceeded /\ obs.startStore = <<>> =>
        /\ obs.afterSent = Null
        /\ StoredIds = {remote[i].id : i \in RemoteRuns}
        /\ \A i \in RemoteRuns : activities[remote[i].id] = Normalize(remote[i])

FullHistoryOnFirstRunWitness ==
    /\ SyncSucceeded
    /\ obs.startStore = <<>>
    /\ Len(remote) > PerPage
    /\ Cardinality(StoredIds) > PerPage

(* C4: no stored activity has a type other than Run, VirtualRun or         *)
(* TrailRun, and neither has an item a run retains.                        *)
TypeFilter ==
    /\ \A i \in StoredIds : activities[i].type \in {"Run", "VirtualRun", "TrailRun"}
    /\ \A k \in 1..Len(obs.kept) : obs.kept[k].type \in {"Run", "VirtualRun", "TrailRun"}

\* a run met an item of another type, dropped it and succeeded
TypeFilterWitness ==
    /\ SyncSucceeded
    /\ obs.afterSent = Null
    /\ \E i \in 1..Len(remote) : remote[i].type = "Ride"
    /\ StoredIds # {}

(* C5 as claimed: when the request for page N >= 2 fails, the items        *)
(* retained from pages 1..N-1 are stored.                                  *)
PartialCommitOnPageFailure ==
    SyncEnded /\ obs.failedPage >= 2 => KeptIds(obs.kept) \subseteq StoredIds

(* C5, amended: nothing is upserted before the last page has been fetched; *)
(* when a page request fails the run fails and the activity table is as it *)
(* was when the run began.                                                 *)
NoCommitBeforeLastPage ==
    obs.active =>
        /\ pc = "fetch" => activities = obs.startStore
        /\ obs.failedPage > 0 =>
              /\ SyncEnded
              /\ last.kind = "error"
              /\ activities = obs.startStore

NoCommitBeforeLastPageWitness ==
    /\ SyncEnded
    /\ obs.failedPage >= 2
    /\ obs.kept # <<>>
    /\ ~(KeptIds(obs.kept) \subseteq StoredIds)

(* C6 as claimed: whatever interrupted earlier runs, a sync that completes *)
(* without error against the unchanged remote ends with every remote       *)
(* running activity stored.                                                *)
ResumableAfterInterruption ==
    SyncSucceeded => \A i \in RemoteRuns : remote[i].id \in StoredIds

(* C7: a failed page request ends the run with an error, no count is       *)
(* returned and the enrichment pass has not started.                       *)
PaginationFailureFatal ==
    obs.active /\ obs.failedPage > 0 =>
        /\ pc = "idle"
        /\ last = Result("sync", "error", "fetch", Null)
        /\ ~obs.enrichStarted
        /\ obs.passTargets = {}

PaginationFailureFatalWitness ==
    /\ obs.active
    /\ obs.failedPage = 1
    /\ GetActivityIdsWithoutBestEfforts # {}

(* C8: a successful run returns the number of remote items that match its  *)
(* after filter and have a running type, over all pages.                   *)
SyncReturnsRetainedCount ==
    SyncSucceeded =>
        last.count = Some(Cardinality(
            {i \in RemoteRuns :
                obs.afterSent = Null \/ remote[i].start_date > obs.afterSent[1]}))

\* three retained items over two pages, of which enrichment saved none
SyncReturnsRetainedCountWitness ==
    /\ SyncSucceeded
    /\ last.count = Some(PerPage + 1)
    /\ bestEfforts = {}

(* C9: in an enrichment pass a failed detail call leaves its activity      *)
(* without best-effort rows, hence a target of the next pass, and does not *)
(* end the pass: every target is attempted, and each one whose efforts     *)
(* were fetched and saved has them all stored.                             *)
EnrichmentIsolation ==
    obs.enrichStarted =>
        /\ \A a \in obs.passTargets :
              /\ obs.outcome[a] = "failed" =>
                    /\ EffortRowsOf(a) = {}
                    /\ a \in GetActivityIdsWithoutBestEfforts
              /\ obs.outcome[a] = "saved" =>
                    \A e \in Range(EffortsOf(a, a)) : \E x \in EffortRowsOf(a) :
                        x.id = e.id /\ x.name = e.name /\ x.moving_time = e.moving_time
        /\ SyncEnded \/ (pc = "detail" /\ run.targets = {}) =>
              \A a \in obs.passTargets : obs.outcome[a] # "pending"

\* the pass is over: A failed, B and C are saved
EnrichmentIsolationWitness ==
    /\ pc = "detail"
    /\ run.targets = {}
    /\ \E a, b, c \in obs.passTargets :
          /\ a # b /\ b # c /\ a # c
          /\ obs.outcome[a] = "failed"
          /\ obs.outcome[b] = "saved"
          /\ obs.outcome[c] = "saved"

(* C10: once the enrichment pass has started, the run ends by returning    *)
(* its count, whatever detail calls or best-effort saves fail, and the     *)
(* activities it retained are stored.                                      *)
EnrichmentNeverFailsSync ==
    obs.enrichStarted =>
        /\ KeptIds(obs.kept) \subseteq StoredIds
        /\ SyncEnded => last = Result("sync", "ok", "", Some(Len(obs.kept)))

EnrichmentNeverFailsSyncWitness ==
    /\ SyncSucceeded
    /\ last.count # Some(0)
    /\ obs.enrichFailed
    /\ GetActivityIdsWithoutBestEfforts # {}

(* C11: a run refreshes the token GetToken gave it exactly when that token  *)
(* expires within the refresh window (expires_at <= now + 5 min), and does *)
(* so once; a token that expires later is used as stored: the run sends    *)
(* nothing to the token endpoint and the stored row stays as it was read.  *)
RefreshTrigger ==
    obs.active /\ obs.startToken # Null =>
        LET t == obs.startToken[1]
            due == t.expires_at <= now + RefreshWindow
        IN  /\ due <=> (pc = "refresh" \/ obs.tokenCalls > 0)
            /\ pc = "refresh" => obs.tokenCalls = 0
            /\ obs.tokenCalls <= 1
            /\ ~due =>
                  /\ t.athlete_id \in DOMAIN tokens
                  /\ tokens[t.athlete_id] = t
                  /\ pc \in SyncPcs => run.token = obs.startToken

\* a token that expires exactly five minutes from now was refreshed
RefreshTriggerWitness ==
    /\ SyncSucceeded
    /\ obs.tokenCalls = 1
    /\ obs.startToken[1].expires_at = now + RefreshWindow

(* C12: when the refresh grant of a run fails, the run ends with an error  *)
(* without having sent a list or detail request; the token row it read is  *)
(* stored as it was read and is still due for refresh, so the next run     *)
(* refreshes again; no step taken while refreshing changes an activity or  *)
(* best-effort row.                                                        *)
RefreshFailureLeavesState ==
    /\ [](SyncEnded /\ last.stage = "refresh" =>
             /\ last = Result("sync", "error", "refresh", Null)
             /\ obs.tokenCalls = 1
             /\ ~obs.listed
             /\ ~obs.enrichStarted
             /\ activities = obs.startStore
             /\ LET t == obs.startToken[1]
                IN  /\ t.athlete_id \in DOMAIN tokens
                    /\ tokens[t.athlete_id] = t
                    /\ t.expires_at <= now + RefreshWindow)
    /\ [][pc = "refresh" => UNCHANGED <<activities, bestEfforts>>]_vars

RefreshFailureLeavesStateWitness ==
    /\ SyncEnded
    /\ last.stage = "refresh"
    /\ activities # <<>>
    /\ bestEfforts # {}

(* C13: a sync called while the token table is empty fails with the not    *)
(* connected error in one step that sends no request to the token, list or *)
(* detail endpoint and changes no token, activity or best-effort row.      *)
NotConnected ==
    /\ [](SyncEnded /\ obs.startToken = Null =>
             /\ last = Result("sync", "error", "token", Null)
             /\ obs.tokenCalls = 0
             /\ ~obs.listed
             /\ ~obs.enrichStarted
             /\ tokens = <<>>
             /\ activities = obs.startStore)
    /\ [][pc = "idle" /\ DOMAIN tokens = {} /\ obs'.active =>
             /\ pc' = "idle"
             /\ UNCHANGED <<tokens, activities, bestEfforts, issued>>]_vars

\* not connected again after a connection that was used and dropped
NotConnectedWitness ==
    /\ SyncEnded
    /\ last.stage = "token"
    /\ issued > 0

(* C14 as claimed: the token table never holds more than one row.          *)
SingleTokenRow == Cardinality(DOMAIN tokens) <= 1

(* C15: a failed authorization-code grant ends ExchangeCodeForToken with   *)
(* an error and leaves the token table as it was.                          *)
ExchangeFailurePersistsNothing ==
    [][last'.op = "exchange" /\ last'.kind = "error" => tokens' = tokens]_vars

\* a connected system whose later exchange failed
ExchangeFailurePersistsNothingWitness ==
    /\ last = Result("exchange", "error", "", Null)
    /\ DOMAIN tokens # {}

\* the bucket names the provider reports
BucketNames == {"1K", "5K"}

BucketRows(n) == {e \in bestEfforts : e.name = n}

SetMin(S) == CHOOSE m \in S : \A x \in S : m <= x

(* C16: when Disconnect has completed, GetAllActivities returns the empty  *)
(* list, GetPersonalBests returns the empty list and IsConnected is false. *)
DisconnectCompleteness ==
    last = Result("disconnect", "ok", "", Null) =>
        /\ pc = "idle"
        /\ GetAllActivities = {<<>>}
        /\ GetPersonalBests = {{}}
        /\ ~IsConnected

\* a Disconnect that began with two activities or more stored
DisconnectCompletenessWitness ==
    /\ last = Result("disconnect", "ok", "", Null)
    /\ Cardinality(DOMAIN obs.startStore) >= 2

(* C17: IsConnected is true exactly when the token table holds a row; it   *)
(* turns true only in the step of a successful ExchangeCodeForToken and    *)
(* turns false only in the DeleteToken step of Disconnect, so no step of a *)
(* sync or of a refresh, successful or failed, changes it.                 *)
ConnectionStateMachine ==
    /\ [](IsConnected <=> DOMAIN tokens # {})
    /\ [][(~IsConnected /\ IsConnected' =>
               pc = "idle" /\ last' = Result("exchange", "ok", "", Null))
           /\ (IsConnected /\ ~IsConnected' => pc = "disconnect_token")
           /\ (pc \in SyncPcs \/ pc' \in SyncPcs \/ last'.op = "sync" =>
                 (IsConnected' <=> IsConnected))]_vars

\* still connected after a sync that refreshed the token and then failed
ConnectionStateMachineWitness ==
    /\ SyncEnded
    /\ last = Result("sync", "error", "fetch", Null)
    /\ obs.tokenCalls = 1
    /\ IsConnected

(* C18: the list GetPersonalBests returns holds, for every bucket name    *)
(* that has stored rows, an entry whose best time is the least moving time *)
(* of those rows and whose distance, date and activity are those of one    *)
(* stored row with that moving time.                                       *)
PersonalBestSelection ==
    last.op = "pbs" =>
        LET r == last.count[1]
        IN  /\ \A n \in BucketNames : BucketRows(n) # {} => \E p \in r : p.name = n
            /\ \A p \in r :
                  /\ BucketRows(p.name) # {}
                  /\ p.best_time_seconds = SetMin({e.moving_time : e \in BucketRows(p.name)})
                  /\ \E e \in BucketRows(p.name) :
                        /\ e.moving_time = p.best_time_seconds
                        /\ e.distance = p.distance_meters
                        /\ e.start_date = p.achieved_date
                        /\ e.activity_id = p.activity_id

\* moving times 1200, 1100 and 1300 are stored for the five kilometres and the
\* entry returned is the one of 1100
PersonalBestSelectionWitness ==
    /\ last.op = "pbs"
    /\ {e.moving_time : e \in BucketRows("5K")} = {1200, 1100, 1300}
    /\ \E p \in last.count[1] : p.name = "5K" /\ p.best_time_seconds = 1100

(* C19: the list GetPersonalBests returns holds exactly one entry for each *)
(* bucket name that has a stored row and none for a name without.          *)
PersonalBestBuckets ==
    last.op = "pbs" =>
        LET r == last.count[1]
        IN  /\ \A n \in BucketNames :
                  Cardinality({p \in r : p.name = n}) = IF BucketRows(n) = {} THEN 0 ELSE 1
            /\ \A p \in r : p.name \in BucketNames

\* several rows for the kilometre, two of them the fastest, none for the five
\* kilometres
PersonalBestBucketsWitness ==
    /\ last.op = "pbs"
    /\ Cardinality({e \in BucketRows("1K") : e.moving_time = 1100}) >= 2
    /\ Cardinality(BucketRows("1K")) = MaxEffortRows
    /\ BucketRows("5K") = {}

(* C20: no step other than those of Disconnect makes a reported bucket     *)
(* disappear or raises its best time: whatever GetPersonalBests could      *)
(* report before the step, every list it can return after the step holds   *)
(* the bucket with a best time that is not greater.                        *)
PersonalBestsNeverExpire ==
    [][(/\ pc \notin {"disconnect_token", "disconnect_activities"}
        /\ pc' # "disconnect_token"
        /\ bestEfforts' # bestEfforts) =>
          \A r \in GetPersonalBests : \A p \in r :
              \A q \in GetPersonalBests' : \E p2 \in q :
                  /\ p2.name = p.name
                  /\ p2.best_time_seconds <= p.best_time_seconds]_vars

\* an enrichment pass has saved a five-kilometre effort slower than one that
\* was stored before the pass
PersonalBestsNeverExpireWitness ==
    /\ pc = "detail"
    /\ run.targets = {}
    /\ \E a \in obs.passTargets : \E e \in BucketRows("5K") :
          /\ obs.outcome[a] = "saved"
          /\ e.activity_id \notin obs.passTargets
          /\ e.moving_time < EffortsOf(a, a)[2].moving_time

(* C22: every stored best-effort row names a stored activity, in every     *)
(* state: between the statements of Disconnect and while an enrichment     *)
(* pass saves a payload whose best efforts name another activity.          *)
ReferentialIntegrity ==
    \A e \in bestEfforts : e.activity_id \in DOMAIN activities

\* best efforts are stored and the pass is saving a payload that names an
\* activity that is not stored
ReferentialIntegrityWitness ==
    /\ pc = "efforts"
    /\ run.efforts[run.eidx].activity_id # run.cur[1]
    /\ run.efforts[run.eidx].activity_id \notin DOMAIN activities
    /\ bestEfforts # {}

(* C28: Disconnect deletes the best efforts, then the token, then the      *)
(* activities: after its first statement no best effort is stored, after   *)
(* its second no token either, and no state, a Disconnect that failed      *)
(* after a statement included, holds a best effort without a token.        *)
DisconnectOrdering ==
    /\ pc = "disconnect_token" => bestEfforts = {}
    /\ pc = "disconnect_activities" => bestEfforts = {} /\ tokens = <<>>
    /\ DOMAIN tokens = {} => bestEfforts = {}

\* a Disconnect that failed at its third statement: activities without token
DisconnectOrderingWitness ==
    /\ last = Result("disconnect", "error", "disconnect_activities", Null)
    /\ Cardinality(DOMAIN activities) >= 2
    /\ tokens = <<>>

(* C29: the targets of an enrichment pass are the stored activities that   *)
(* have no best-effort row when the pass starts; a detail request is made  *)
(* only for a target not yet requested in the pass, and a target still to  *)
(* be requested has no best-effort row.                                    *)
EnrichmentTargetSet ==
    /\ [](obs.enrichStarted /\ pc \in {"detail", "efforts", "delay"} =>
             /\ run.targets \subseteq obs.passTargets
             /\ obs.passTargets \subseteq StoredIds
             /\ \A a \in obs.passTargets :
                   /\ obs.outcome[a] # "pending" => a \notin run.targets \/ run.cur = Some(a)
                   /\ a \in run.targets /\ run.cur # Some(a) => EffortRowsOf(a) = {})
    /\ [][pc = "enrich" /\ pc' = "detail" =>
             /\ obs'.passTargets = {i \in StoredIds : EffortRowsOf(i) = {}}
             /\ run'.targets = obs'.passTargets]_vars
    /\ [][\A a \in obs.passTargets \cap obs'.passTargets :
             obs.outcome[a] = "pending" /\ obs'.outcome[a] # "pending" =>
                 pc = "detail" /\ a \in run.targets]_vars

\* a pass that does not target a stored activity, which has best efforts
EnrichmentTargetSetWitness ==
    /\ pc = "detail"
    /\ obs.passTargets # {}
    /\ \E i \in StoredIds : EffortRowsOf(i) # {} /\ i \notin obs.passTargets

(* C30: in a run the enrichment pass starts only when every retained       *)
(* activity has been upserted, the activities the run has newly stored are *)
(* among its targets, and a run returns only after a pass, also when it    *)
(* retained nothing.                                                       *)
EnrichmentOrdering ==
    obs.active =>
        /\ pc \in {"refresh", "cursor", "fetch", "save"} => ~obs.enrichStarted
        /\ obs.enrichStarted => KeptIds(obs.kept) \subseteq StoredIds
        /\ pc \in {"detail", "efforts", "delay"} =>
              /\ obs.enrichStarted
              /\ (StoredIds \ DOMAIN obs.startStore) \subseteq obs.passTargets
        /\ SyncSucceeded => obs.enrichStarted

\* a run that retained nothing and whose pass met a failure
EnrichmentOrderingWitness ==
    /\ SyncSucceeded
    /\ last.count = Some(0)
    /\ obs.startStore # <<>>
    /\ obs.enrichStarted
    /\ obs.enrichFailed

(* C21: a best-effort row never changes once stored: saving an effort  *)
(* whose id is already stored, whatever its other fields, leaves every     *)
(* stored row as it was; rows go only when a disconnect removes them.      *)
BestEffortImmutability ==
    [][(pc = "idle" /\ pc' = "idle") => \A x \in bestEfforts : x \in bestEfforts']_vars

\* an effort was saved whose id is stored with other field values
BestEffortImmutabilityWitness ==
    /\ last.op = "saveBestEfforts"
    /\ last.count[1] \notin bestEfforts
    /\ \E x \in bestEfforts : x.id = last.count[1].id /\ x.moving_time # last.count[1].moving_time

----------------------------------------------------------------------------
(* Vocabulary of the statistics properties *)

Abs(x) == IF x < 0 THEN 0 - x ELSE x

RECURSIVE StoredDistance(_)
\* metres of the stored activities ids
StoredDistance(ids) ==
    IF ids = {} THEN 0
    ELSE LET i == CHOOSE x \in ids : TRUE
         IN  activities[i].distance + StoredDistance(ids \ {i})

RECURSIVE StoredTime(_)
\* moving seconds of the stored activities ids
StoredTime(ids) ==
    IF ids = {} THEN 0
    ELSE LET i == CHOOSE x \in ids : TRUE
         IN  activities[i].moving_time + StoredTime(ids \ {i})

SumDistance == StoredDistance(DOMAIN activities)
SumTime == StoredTime(DOMAIN activities)

\* the statistics last reported
Reported == last.count[1]

\* p hundredths is a nearest hundredth of the quotient num / den
NearestHundredth(p, num, den) == 2 * Abs(den * p - 100 * num) <= den

(* C23: with no stored activity the statistics are all zeros with no last *)
(* run date, and the request succeeds.                                     *)
StatsOnEmptyStore ==
    /\ (pc = "idle" /\ activities = <<>>) => ENABLED Stats
    /\ (last.op = "stats" /\ activities = <<>>) =>
          /\ last.kind = "ok"
          /\ Reported.total_runs = 0
          /\ Reported.total_distance_km = 0
          /\ Reported.total_time_minutes = 0
          /\ Reported.total_elevation_gain = 0
          /\ Reported.average_pace = 0
          /\ Reported.last_run_date = Null

\* statistics were asked of an empty store
StatsOnEmptyStoreWitness == last.op = "stats" /\ activities = <<>>

(* C24: with a positive total distance, the reported distance is the sum  *)
(* of the distances over 1000 to the nearest tenth of a kilometre, and the *)
(* pace is (sum of times / 60) / (sum of distances / 1000), the quotients  *)
(* exact, to the nearest hundredth.                                        *)
StatsArithmetic ==
    (last.op = "stats" /\ SumDistance > 0) =>
        /\ 2 * Abs(100 * Reported.total_distance_km - SumDistance) <= 100
        /\ NearestHundredth(Reported.average_pace, 50 * SumTime, 3 * SumDistance)

\* totals that are neither whole minutes nor whole tenths of a kilometre
StatsArithmeticWitness ==
    /\ last.op = "stats"
    /\ SumDistance > 0
    /\ SumTime % 60 # 0
    /\ SumDistance % 100 # 0

(* C25: as stated: the pace is the reported whole minutes over the        *)
(* reported kilometres, to the nearest hundredth.                          *)
PaceFromReportedTotals ==
    (last.op = "stats" /\ SumDistance > 0 /\ Reported.total_distance_km > 0) =>
        NearestHundredth(Reported.average_pace, 10 * Reported.total_time_minutes,
                         Reported.total_distance_km)

(* C25: amended: the pace is the nearest hundredth of the quotient of the *)
(* exact sums; it is the quotient of the reported totals when the sum of   *)
(* times is whole minutes and the sum of distances whole tenths of a       *)
(* kilometre.                                                              *)
PaceFromExactTotals ==
    (last.op = "stats" /\ SumDistance > 0) =>
        /\ NearestHundredth(Reported.average_pace, 50 * SumTime, 3 * SumDistance)
        /\ (SumTime % 60 = 0 /\ SumDistance % 100 = 0) =>
              NearestHundredth(Reported.average_pace, 10 * Reported.total_time_minutes,
                               Reported.total_distance_km)

\* a pace that is not the quotient of the reported totals
PaceFromExactTotalsWitness ==
    /\ last.op = "stats"
    /\ Reported.total_distance_km > 0
    /\ ~NearestHundredth(Reported.average_pace, 10 * Reported.total_time_minutes,
                         Reported.total_distance_km)

(* C26: with stored activities whose distances sum to zero the pace is 0, *)
(* the number of runs is the number of stored activities, and the request  *)
(* succeeds.                                                               *)
ZeroTotalDistance ==
    /\ (pc = "idle" /\ activities # <<>> /\ SumDistance = 0) => ENABLED Stats
    /\ (last.op = "stats" /\ activities # <<>> /\ SumDistance = 0) =>
          /\ last.kind = "ok"
          /\ Reported.average_pace = 0
          /\ Reported.total_runs = Cardinality(DOMAIN activities)

\* statistics of stored activities of no distance and some moving time
ZeroTotalDistanceWitness ==
    /\ last.op = "stats"
    /\ Cardinality(DOMAIN activities) = MaxStatRows
    /\ SumDistance = 0
    /\ SumTime > 0

(* C27: with stored activities the last run date is the local start of a  *)
(* stored activity of greatest UTC start.                                  *)
LastRunDate ==
    (last.op = "stats" /\ activities # <<>>) =>
        \E i \in DOMAIN activities :
            /\ \A j \in DOMAIN activities : activities[j].start_date <= activities[i].start_date
            /\ Reported.last_run_date = Some(activities[i].start_date_local)

\* the activity of greatest UTC start is not the one of greatest local start
LastRunDateWitness ==
    /\ last.op = "stats"
    /\ \E i, j \in DOMAIN activities :
          /\ activities[j].start_date < activities[i].start_date
          /\ activities[j].start_date_local > activities[i].start_date_local
          /\ Reported.last_run_date = Some(activities[i].start_date_local)

(* C31: as stated: within a pass the next identifier is taken up only   *)
(* out of the delay step, whatever became of the detail call before it,    *)
(* and no identifier is requested twice.                                   *)
RateLimitSpacing ==
    /\ [][(pc \in {"detail", "efforts", "delay"} /\ pc' = "detail"
           /\ run'.targets # run.targets /\ run'.targets # {}) => pc = "delay"]_vars
    /\ [][(pc = "detail" /\ pc' \in {"detail", "efforts"}) =>
             \A a \in DOMAIN obs.outcome :
                 obs'.outcome[a] # obs.outcome[a] => obs.outcome[a] = "pending"]_vars

(* C34: an activity row appears only in a step of SaveActivities and       *)
(* disappears only in the DeleteAllActivities of a disconnect; every other *)
(* step (token exchange, refresh, enrichment pass, the clock) leaves the   *)
(* activity table as it is.                                                *)
ActivitiesOnlyBySyncAndDisconnect ==
    [][/\ (DOMAIN activities' \ DOMAIN activities # {}) => pc = "save"
       /\ (DOMAIN activities \ DOMAIN activities' # {}) => pc = "disconnect_activities"
       /\ (pc \notin {"save", "disconnect_activities"}) => activities' = activities]_vars

\* a token exchange has completed over stored activities and best efforts
ActivitiesOnlyBySyncAndDisconnectWitness ==
    /\ last = Result("exchange", "ok", "", Null)
    /\ activities # <<>>
    /\ bestEfforts # {}

(* C35: as stated: an activity whose best efforts the pass has tried to    *)
(* save has either all the efforts of its payload stored or none.          *)
BestEffortBatchAtomicity ==
    \A a \in DOMAIN obs.outcome :
        obs.outcome[a] \in {"saved", "savefail"} =>
            Cardinality(EffortRowsOf(a)) \in {0, Len(EffortsOf(a, a))}

(* C40: as stated: once no token row is stored (after a disconnect, before *)
(* the next exchange) the service's HTTP client carries no Authorization   *)
(* header.                                                                 *)
NoCredentialOutsideStore ==
    (pc = "idle" /\ DOMAIN tokens = {}) => authorization = Null

(* C33: saving an activity whose identifier is stored leaves the number *)
(* of rows and every other row as they were, gives the row the new type,   *)
(* distance, moving time and elevation, and keeps its identifier, UTC      *)
(* start and local start, so the cursor does not move.                     *)
UpsertByIdentifier ==
    [][(last'.op = "saveActivities" /\ last'.count[1].id \in DOMAIN activities) =>
          LET a == last'.count[1]
          IN  /\ DOMAIN activities' = DOMAIN activities
              /\ \A i \in DOMAIN activities \ {a.id} : activities'[i] = activities[i]
              /\ \A f \in {"type", "distance", "moving_time", "elevation"} :
                    activities'[a.id][f] = a[f]
              /\ \A f \in {"id", "start_date", "start_date_local"} :
                    activities'[a.id][f] = activities[a.id][f]
              /\ GetLatestActivityDate' = GetLatestActivityDate]_vars

\* an activity was saved over a stored row of another start and local start
UpsertByIdentifierWitness ==
    /\ last.op = "saveActivities"
    /\ last.count[1].id \in DOMAIN activities
    /\ activities[last.count[1].id].start_date > last.count[1].start_date
    /\ activities[last.count[1].id].start_date_local # last.count[1].start_date_local
    /\ activities[last.count[1].id].type = "TrailRun"
    /\ Cardinality(DOMAIN activities) = MaxStatRows

(* C32: in a run the pages are requested in the order 1, 2, 3, ... with *)
(* the same after value; the next page is requested exactly when the page  *)
(* just answered held PerPage items, counted before the type filter; and   *)
(* the loop is left.                                                       *)
PaginationStopRule ==
    /\ [][(pc = "cursor" /\ pc' = "fetch") => run'.page = 1]_vars
    /\ [][(pc = "fetch" /\ pc' \in {"fetch", "save", "enrich"}) =>
             LET count == Len(ListPage(run.page, PerPage, AfterParam(run.after)))
             IN  /\ run'.after = run.after
                 /\ obs'.afterSent = AfterParam(run.after)
                 /\ (count = PerPage) <=> (pc' = "fetch")
                 /\ run'.page = IF count = PerPage THEN run.page + 1 ELSE run.page]_vars
    /\ (pc = "fetch") ~> (pc # "fetch")

\* a history of exactly one full page: the second page was requested, came
\* back empty and ended the loop
PaginationStopRuleWitness ==
    /\ obs.active
    /\ pc \in {"save", "enrich"}
    /\ run.page = 2
    /\ run.after = Null
    /\ Len(remote) = PerPage

(* C38: as stated: when a sync has succeeded every running activity of  *)
(* the remote history is stored, also one that was added to the remote     *)
(* after an earlier sync with a start date not later than the greatest     *)
(* stored one.                                                             *)
CompleteAcrossSyncs == SyncSucceeded => RemoteRuns \subseteq StoredIds

(* C36: as stated: when two sync requests that overlap have both        *)
(* finished, at most one refresh grant has been issued and the token row   *)
(* holds the token the provider issued last.                               *)
ConcurrentRefresh ==
    (concurrent.op = "sync" /\ concurrent.pc = "done" /\ pc = "idle" /\ last.op = "sync") =>
        /\ issued <= 1
        /\ \A a \in DOMAIN tokens : tokens[a].access_token = issued

(* C37: as stated: when a disconnect and the sync it overlapped have both  *)
(* finished, no token row, no activity row and no best-effort row is       *)
(* stored.                                                                 *)
DisconnectDuringSync ==
    (concurrent.op = "disconnect" /\ concurrent.pc = "done" /\ pc = "idle") =>
        /\ tokens = <<>>
        /\ activities = <<>>
        /\ bestEfforts = {}

\* the request received last carries "Bearer t" for a session token t that
\* is in the session store and whose expiry is later than now
CarriesLiveSession ==
    /\ request # Null
    /\ request[1].authorization # Null
    /\ request[1].authorization[1] = "Bearer"
    /\ request[1].authorization[2] \in DOMAIN sessionTokens
    /\ sessionTokens[request[1].authorization[2]] > now

(* C39: the controller starts GetAuthorizationUrl, ExchangeCodeForToken,  *)
(* SyncActivities or Disconnect only for a request of that endpoint that   *)
(* carries a live session token; a request that does not is answered      *)
(* Unauthorized and leaves the three tables as they are.                   *)
AdminGate ==
    /\ [][(pc = "idle" /\ (pc' # "idle" \/ tokens' # tokens
                           \/ (last' # last /\ last'.kind # "unauthorized"
                               /\ last'.op \in {"authUrl", "exchange", "sync"}))) =>
             /\ CarriesLiveSession
             /\ request' = request
             /\ request[1].endpoint =
                   IF last'.op = "authUrl" THEN "auth/url"
                   ELSE IF last'.op = "exchange" THEN "auth/callback"
                   ELSE IF pc' = "disconnect_token" THEN "disconnect" ELSE "sync"]_vars
    /\ [][(last' # last /\ last'.kind = "unauthorized") =>
             /\ ~CarriesLiveSession
             /\ last'.op = request[1].endpoint
             /\ UNCHANGED <<tokens, activities, bestEfforts, pc>>]_vars
    /\ (pc = "idle" /\ request # Null /\ ~CarriesLiveSession) => ENABLED Unauthorized

\* a sync request that carried a session token that has run out was answered
\* Unauthorized while the application is connected
AdminGateWitness ==
    /\ last = Result("sync", "unauthorized", "", Null)
    /\ request # Null
    /\ request[1].authorization # Null
    /\ request[1].authorization[1] = "Bearer"
    /\ request[1].authorization[2] \in DOMAIN sessionTokens
    /\ tokens # <<>>

====
